---- MODULE Spec2Model ----
(***************************************************************************)
(* Model of src/api.rs of rust_reddit: the URL builder gen_request_uri,    *)
(* the header formatter gen_headers, the transfer executor                 *)
(* get_output_from_transfer and the query facade path_query.               *)
(*                                                                         *)
(* Strings are sequences of bytes (Rust's String is UTF-8 bytes); a chunk  *)
(* handed to the write callback is a sequence of bytes (&[u8]).            *)
(* An Option is a sequence of length 0 (None) or 1 (Some).                 *)
(***************************************************************************)
EXTENDS Integers, Sequences, FiniteSets, TLC

VARIABLES
    search_string,  \* path_query's search_string / gen_request_uri's search
    args_headers,   \* args.headers / gen_headers' header_string
    ret,            \* Option: value returned by the pure function applied
    pc,             \* position of the running call
    easy_url,       \* Option: URL set on the Easy handle
    easy_headers,   \* Option: header list set on the Easy handle
    output_locker,  \* contents of the RwLock<Vec<String>>
    lock,           \* 0 = free, i = write guard held by callback invocation i
    poisoned,       \* the RwLock's poison flag
    cb_pc,          \* positions of concurrently running callback invocations
    wire,           \* chunks the transport has (still) to deliver
    sent,           \* chunks already handed to the write callback, in order
    performs,       \* number of times transfer.perform() was invoked
    output,         \* Option: the String returned by get_output_from_transfer
    result,         \* Option: the serde_json::Value returned by path_query
    panic           \* 0, or the source line of the unwrap() that panicked

vars == <<search_string, args_headers, ret, pc, easy_url, easy_headers,
          output_locker, lock, poisoned, cb_pc, wire, sent, performs,
          output, result, panic>>

----------------------------------------------------------------------------
(* Bounds *)

MaxPathLen == 3
MaxHeaderLen == 4
MaxQueryLen == 1
MaxBody == 3
NumCallbacks == 2
MaxChunkLen == 3

----------------------------------------------------------------------------
(* Strings *)

RECURSIVE StrUpTo(_, _)
StrUpTo(alphabet, n) ==
    IF n = 0 THEN {<<>>}
    ELSE LET shorter == StrUpTo(alphabet, n - 1)
         IN  shorter \cup {Append(s, b) : s \in {t \in shorter : Len(t) = n - 1},
                                          b \in alphabet}

\* '/', '{', '}', '%', ' '
PathBytes == {47, 123, 125, 37, 32}
\* ',', ' ', 'a', ':'
HeaderBytes == {44, 32, 97, 58}
\* '1', '[', ']', and the two bytes of U+00E9 (0xC3 0xA9)
BodyBytes == {49, 91, 93, 195, 169}

RECURSIVE Compositions(_)
\* every way of cutting the byte string s into consecutive non-empty chunks
Compositions(s) ==
    IF s = <<>> THEN {<<>>}
    ELSE UNION {{<<SubSeq(s, 1, k)>> \o rest :
                    rest \in Compositions(SubSeq(s, k + 1, Len(s)))} :
                k \in 1..Len(s)}

Responses == UNION {Compositions(b) : b \in StrUpTo(BodyBytes, MaxBody)}

RECURSIVE Flatten(_)
Flatten(chunks) ==
    IF chunks = <<>> THEN <<>> ELSE Head(chunks) \o Flatten(Tail(chunks))

----------------------------------------------------------------------------
(* gen_request_uri: format!("https://www.reddit.com{}", search) *)

\* the format string of line 17, "https://www.reddit.com{}"
UriTemplate ==
    <<104, 116, 116, 112, 115, 58, 47, 47, 119, 119, 119, 46,
      114, 101, 100, 100, 105, 116, 46, 99, 111, 109, 123, 125>>

RECURSIVE Format(_, _)
\* format! with one positional argument: literal bytes are copied, the
\* placeholder {} is replaced by the argument, which is not scanned again
Format(template, arg) ==
    IF template = <<>> THEN <<>>
    ELSE IF Len(template) >= 2 /\ template[1] = 123 /\ template[2] = 125
         THEN arg \o Format(SubSeq(template, 3, Len(template)), arg)
         ELSE <<Head(template)>> \o Format(Tail(template), arg)

RECURSIVE PercentEncode(_)
PercentEncode(s) ==
    IF s = <<>> THEN <<>>
    ELSE (IF Head(s) = 32 THEN <<37, 50, 48>> ELSE <<Head(s)>>)
         \o PercentEncode(Tail(s))

gen_request_uri_normalising(search) ==
    Format(UriTemplate,
           PercentEncode(IF search = <<>> \/ Head(search) # 47
                         THEN <<47>> \o search ELSE search))

gen_request_uri(search) == Format(UriTemplate, search)

----------------------------------------------------------------------------
(* gen_headers: header_string.split(",") appended to a List one by one *)

Comma == 44

RECURSIVE Split(_, _)
\* str::split: the pieces between the delimiters, the final piece included
\* even when it is empty
Split(s, delim) ==
    IF \A i \in 1..Len(s) : s[i] # delim THEN <<s>>
    ELSE LET k == CHOOSE i \in 1..Len(s) :
                      s[i] = delim /\ \A j \in 1..(i - 1) : s[j] # delim
         IN  <<SubSeq(s, 1, k - 1)>> \o Split(SubSeq(s, k + 1, Len(s)), delim)

\* List::append: the entry is copied to the end of the list
ListAppend(list, header) == Append(list, header)

RECURSIVE AppendAll(_, _)
AppendAll(list, pieces) ==
    IF pieces = <<>> THEN list
    ELSE AppendAll(ListAppend(list, Head(pieces)), Tail(pieces))

RECURSIVE Trim(_)
Trim(s) ==
    IF s # <<>> /\ Head(s) = 32 THEN Trim(Tail(s))
    ELSE IF s # <<>> /\ s[Len(s)] = 32 THEN Trim(SubSeq(s, 1, Len(s) - 1))
    ELSE s

gen_headers_trimming(header_string) ==
    LET pieces == Split(header_string, Comma)
    IN  AppendAll(<<>>, [i \in 1..Len(pieces) |-> Trim(pieces[i])])

gen_headers(header_string) == AppendAll(<<>>, Split(header_string, Comma))

----------------------------------------------------------------------------
(* str_from_utf8(data).unwrap().to_string() *)

IsCont(b) == b >= 128 /\ b <= 191

\* number of bytes of the character that starts s when s starts with a
\* well-formed character, 0 otherwise (core::str::from_utf8's validation)
CharWidth(s) ==
    LET b == s[1]
        second(lo, hi) == Len(s) >= 2 /\ s[2] >= lo /\ s[2] <= hi
        third == Len(s) >= 3 /\ IsCont(s[3])
        fourth == Len(s) >= 4 /\ IsCont(s[4])
    IN  IF b <= 127 THEN 1
        ELSE IF b >= 194 /\ b <= 223 THEN (IF second(128, 191) THEN 2 ELSE 0)
        ELSE IF b = 224 THEN (IF second(160, 191) /\ third THEN 3 ELSE 0)
        ELSE IF b = 237 THEN (IF second(128, 159) /\ third THEN 3 ELSE 0)
        ELSE IF b >= 225 /\ b <= 239
             THEN (IF second(128, 191) /\ third THEN 3 ELSE 0)
        ELSE IF b = 240
             THEN (IF second(144, 191) /\ third /\ fourth THEN 4 ELSE 0)
        ELSE IF b >= 241 /\ b <= 243
             THEN (IF second(128, 191) /\ third /\ fourth THEN 4 ELSE 0)
        ELSE IF b = 244
             THEN (IF second(128, 143) /\ third /\ fourth THEN 4 ELSE 0)
        ELSE 0

RECURSIVE Utf8Valid(_)
Utf8Valid(s) ==
    IF s = <<>> THEN TRUE
    ELSE LET w == CharWidth(s)
         IN  w > 0 /\ Utf8Valid(SubSeq(s, w + 1, Len(s)))

\* Result<&str, Utf8Error>: the same bytes viewed as text, or an error
str_from_utf8(data) ==
    IF Utf8Valid(data) THEN [ok |-> TRUE, val |-> data]
    ELSE [ok |-> FALSE, val |-> <<>>]

RECURSIVE Join(_, _)
\* [String]::join(sep)
Join(strings, sep) ==
    IF strings = <<>> THEN <<>>
    ELSE IF Len(strings) = 1 THEN strings[1]
    ELSE strings[1] \o sep \o Join(Tail(strings), sep)

----------------------------------------------------------------------------
(* serde_json::from_str, on texts made of the bytes '1', '[' and ']' (and  *)
(* bytes that no JSON text outside a string literal may hold)              *)

RECURSIVE DigitRun(_)
DigitRun(s) == IF s # <<>> /\ Head(s) = 49 THEN 1 + DigitRun(Tail(s)) ELSE 0

RECURSIVE Decimal(_)
Decimal(digits) ==
    IF digits = <<>> THEN 0
    ELSE 10 * Decimal(SubSeq(digits, 1, Len(digits) - 1))
         + (digits[Len(digits)] - 48)

RECURSIVE ParseValue(_)
\* parses one JSON value at the start of s: [ok, val, rest]
ParseValue(s) ==
    LET bad == [ok |-> FALSE, val |-> [t |-> "null"], rest |-> <<>>]
    IN  IF s = <<>> THEN bad
        ELSE IF Head(s) = 49
        THEN LET n == DigitRun(s)
             IN  [ok |-> TRUE,
                  val |-> [t |-> "num", n |-> Decimal(SubSeq(s, 1, n))],
                  rest |-> SubSeq(s, n + 1, Len(s))]
        ELSE IF Head(s) = 91
        THEN IF Len(s) >= 2 /\ s[2] = 93
             THEN [ok |-> TRUE, val |-> [t |-> "arr", items |-> <<>>],
                   rest |-> SubSeq(s, 3, Len(s))]
             ELSE LET e == ParseValue(Tail(s))
                  IN  IF e.ok /\ e.rest # <<>> /\ Head(e.rest) = 93
                      THEN [ok |-> TRUE,
                            val |-> [t |-> "arr", items |-> <<e.val>>],
                            rest |-> Tail(e.rest)]
                      ELSE bad
        ELSE bad

\* Result<Value, Error>: the whole text must be one value
from_str(s) ==
    LET r == ParseValue(s)
    IN  IF r.ok /\ r.rest = <<>> THEN [ok |-> TRUE, val |-> r.val]
        ELSE [ok |-> FALSE, val |-> [t |-> "null"]]

----------------------------------------------------------------------------
(* State before any call runs *)

Idle ==
    /\ ret = <<>>
    /\ easy_url = <<>>
    /\ easy_headers = <<>>
    /\ output_locker = <<>>
    /\ lock = 0
    /\ poisoned = FALSE
    /\ cb_pc = <<>>
    /\ wire = <<>>
    /\ sent = <<>>
    /\ performs = 0
    /\ output = <<>>
    /\ result = <<>>
    /\ panic = 0

----------------------------------------------------------------------------
(* path_query(search_string, args), lines 82-93, with the body of          *)
(* get_output_from_transfer, lines 48-63, in line                          *)

Init ==
    /\ search_string \in StrUpTo({47}, MaxQueryLen)
    /\ args_headers \in StrUpTo({Comma, 97}, MaxQueryLen)
    /\ pc = "L87"
    /\ Idle

\* line 87: easy.url(&gen_request_uri(search_string)).unwrap()
SetUrl ==
    /\ pc = "L87"
    /\ \E ok \in BOOLEAN :
          IF ok
          THEN /\ easy_url' = <<gen_request_uri(search_string)>>
               /\ pc' = "L88"
               /\ panic' = panic
          ELSE /\ easy_url' = easy_url
               /\ pc' = "panicked"
               /\ panic' = 87
    /\ UNCHANGED <<search_string, args_headers, ret, easy_headers,
                   output_locker, lock, poisoned, cb_pc, wire, sent,
                   performs, output, result>>

\* line 88: easy.http_headers(gen_headers(args.headers)).unwrap()
SetHeaders ==
    /\ pc = "L88"
    /\ \E ok \in BOOLEAN :
          IF ok
          THEN /\ easy_headers' = <<gen_headers(args_headers)>>
               /\ pc' = "L49"
               /\ panic' = panic
          ELSE /\ easy_headers' = easy_headers
               /\ pc' = "panicked"
               /\ panic' = 88
    /\ UNCHANGED <<search_string, args_headers, ret, easy_url,
                   output_locker, lock, poisoned, cb_pc, wire, sent,
                   performs, output, result>>

\* lines 49-57: the accumulator is created empty, the transfer is opened and
\* the write callback is registered (write_function(..).unwrap())
EnterTransfer ==
    /\ pc = "L49"
    /\ output_locker' = <<>>
    /\ \E ok \in BOOLEAN :
          IF ok
          THEN pc' = "L59" /\ panic' = panic
          ELSE pc' = "panicked" /\ panic' = 57
    /\ UNCHANGED <<search_string, args_headers, ret, easy_url, easy_headers,
                   lock, poisoned, cb_pc, wire, sent, performs, output,
                   result>>

\* line 59: transfer.perform() is invoked; the peer's response, cut into
\* chunks by the transport, is what the callback will be handed
PerformStart ==
    /\ pc = "L59"
    /\ performs' = performs + 1
    /\ wire' \in Responses
    /\ pc' = "performing"
    /\ UNCHANGED <<search_string, args_headers, ret, easy_url, easy_headers,
                   output_locker, lock, poisoned, cb_pc, sent, output,
                   result, panic>>

\* A write callback that keeps only the chunk it was handed last
PushReplacing(locker, text) == <<text>>

\* lines 54-55: write_rwlock.push(text)
Push(locker, text) == Append(locker, text)

\* lines 52-57: one invocation of the write callback, during perform():
\* take the write guard, decode the chunk, push it, give the guard back.
\* A chunk that is not UTF-8 on its own panics at line 55 with the guard
\* held, which poisons the lock.
WriteFunction ==
    /\ pc = "performing"
    /\ wire # <<>>
    /\ lock = 0 /\ ~poisoned
    /\ LET data == Head(wire)
           text == str_from_utf8(data)
       IN  /\ wire' = Tail(wire)
           /\ sent' = Append(sent, data)
           /\ IF text.ok
              THEN /\ output_locker' = Push(output_locker, text.val)
                   /\ UNCHANGED <<pc, panic, poisoned>>
              ELSE /\ pc' = "panicked"
                   /\ panic' = 55
                   /\ poisoned' = TRUE
                   /\ output_locker' = output_locker
    /\ UNCHANGED <<search_string, args_headers, ret, easy_url, easy_headers,
                   lock, cb_pc, performs, output, result>>

\* line 59: perform() returns Ok once the whole response was delivered
PerformOk ==
    /\ pc = "performing"
    /\ wire = <<>>
    /\ pc' = "L61"
    /\ UNCHANGED <<search_string, args_headers, ret, easy_url, easy_headers,
                   output_locker, lock, poisoned, cb_pc, wire, sent,
                   performs, output, result, panic>>

\* A transfer that is attempted again after a failure
PerformErrRetry ==
    /\ pc = "performing"
    /\ pc' = "L59"
    /\ UNCHANGED <<search_string, args_headers, ret, easy_url, easy_headers,
                   output_locker, lock, poisoned, cb_pc, wire, sent,
                   performs, output, result, panic>>

\* line 59: perform() returns Err (the connection fails, at any point of
\* the transfer) and unwrap() panics
PerformErr ==
    /\ pc = "performing"
    /\ pc' = "panicked"
    /\ panic' = 59
    /\ UNCHANGED <<search_string, args_headers, ret, easy_url, easy_headers,
                   output_locker, lock, poisoned, cb_pc, wire, sent,
                   performs, output, result>>

\* An accumulator that is read while perform() is still running
ReadJoinEarly ==
    /\ pc \in {"performing", "L61"}
    /\ output' = <<Join(output_locker, <<>>)>>
    /\ pc' = "L92"
    /\ UNCHANGED <<search_string, args_headers, ret, easy_url, easy_headers,
                   output_locker, lock, poisoned, cb_pc, wire, sent,
                   performs, result, panic>>

\* lines 61-62: output_locker.read().unwrap().clone().join("") is returned
ReadJoin ==
    /\ pc = "L61"
    /\ output' = <<Join(output_locker, <<>>)>>
    /\ pc' = "L92"
    /\ UNCHANGED <<search_string, args_headers, ret, easy_url, easy_headers,
                   output_locker, lock, poisoned, cb_pc, wire, sent,
                   performs, result, panic>>

\* line 92: serde_json::from_str(&output).unwrap()
ParseJson ==
    /\ pc = "L92"
    /\ LET parsed == from_str(output[1])
       IN  IF parsed.ok
           THEN /\ result' = <<parsed.val>>
                /\ pc' = "returned"
                /\ panic' = panic
           ELSE /\ result' = result
                /\ pc' = "panicked"
                /\ panic' = 92
    /\ UNCHANGED <<search_string, args_headers, ret, easy_url, easy_headers,
                   output_locker, lock, poisoned, cb_pc, wire, sent,
                   performs, output>>

Next ==
    \/ SetUrl
    \/ SetHeaders
    \/ EnterTransfer
    \/ PerformStart
    \/ WriteFunction
    \/ PerformOk
    \/ PerformErr
    \/ ReadJoin
    \/ ParseJson

Spec == Init /\ [][Next]_vars

----------------------------------------------------------------------------
(* gen_request_uri applied to every path string up to MaxPathLen *)

InitUri ==
    /\ search_string \in StrUpTo(PathBytes, MaxPathLen)
    /\ args_headers = <<>>
    /\ pc = "gen_request_uri"
    /\ Idle

CallGenRequestUri ==
    /\ pc = "gen_request_uri"
    /\ ret' = <<gen_request_uri(search_string)>>
    /\ pc' = "done"
    /\ UNCHANGED <<search_string, args_headers, easy_url, easy_headers,
                   output_locker, lock, poisoned, cb_pc, wire, sent,
                   performs, output, result, panic>>

NextUri == CallGenRequestUri

SpecUri == InitUri /\ [][NextUri]_vars

----------------------------------------------------------------------------
(* gen_headers applied to every header string up to MaxHeaderLen *)

InitHeaders ==
    /\ search_string = <<>>
    /\ args_headers \in StrUpTo(HeaderBytes, MaxHeaderLen)
    /\ pc = "gen_headers"
    /\ Idle

CallGenHeaders ==
    /\ pc = "gen_headers"
    /\ ret' = <<gen_headers(args_headers)>>
    /\ pc' = "done"
    /\ UNCHANGED <<search_string, args_headers, easy_url, easy_headers,
                   output_locker, lock, poisoned, cb_pc, wire, sent,
                   performs, output, result, panic>>

NextHeaders == CallGenHeaders

SpecHeaders == InitHeaders /\ [][NextHeaders]_vars

----------------------------------------------------------------------------
(* The write callback of lines 52-57 invoked concurrently, once per chunk: *)
(* invocation i is handed wire[i]; cb_pc[i] is its position. The chunks    *)
(* are the consecutive pieces of a response body that is UTF-8 as a whole. *)

Chunks == StrUpTo({49, 195, 169}, MaxChunkLen) \ {<<>>}

InitConc ==
    /\ search_string = <<>>
    /\ args_headers = <<>>
    /\ ret = <<>>
    /\ easy_url = <<>>
    /\ easy_headers = <<>>
    /\ output_locker = <<>>
    /\ lock = 0
    /\ poisoned = FALSE
    /\ wire \in {c \in [1..NumCallbacks -> Chunks] : Utf8Valid(Flatten(c))}
    /\ cb_pc = [i \in 1..NumCallbacks |-> "L53"]
    /\ sent = <<>>
    /\ performs = 1
    /\ output = <<>>
    /\ result = <<>>
    /\ panic = 0
    /\ pc = "performing"

\* line 53: output_locker.write().unwrap(); write() blocks while the lock is
\* taken, and on a poisoned lock returns Err, on which unwrap() panics
AcquireWrite(i) ==
    /\ cb_pc[i] = "L53"
    /\ lock = 0
    /\ IF poisoned
       THEN /\ cb_pc' = [cb_pc EXCEPT ![i] = "panicked"]
            /\ lock' = lock
       ELSE /\ cb_pc' = [cb_pc EXCEPT ![i] = "L54"]
            /\ lock' = i
    /\ UNCHANGED <<search_string, args_headers, ret, pc, easy_url,
                   easy_headers, output_locker, poisoned, wire, sent,
                   performs, output, result, panic>>

\* lines 54-55: the chunk is decoded and pushed with the guard held; a chunk
\* that does not decode panics, which drops the guard and poisons the lock
DecodePush(i) ==
    /\ cb_pc[i] = "L54"
    /\ LET text == str_from_utf8(wire[i])
       IN  IF text.ok
           THEN /\ output_locker' = Push(output_locker, text.val)
                /\ cb_pc' = [cb_pc EXCEPT ![i] = "L56"]
                /\ UNCHANGED <<lock, poisoned, panic>>
           ELSE /\ cb_pc' = [cb_pc EXCEPT ![i] = "panicked"]
                /\ lock' = 0
                /\ poisoned' = TRUE
                /\ panic' = 55
                /\ output_locker' = output_locker
    /\ UNCHANGED <<search_string, args_headers, ret, pc, easy_url,
                   easy_headers, wire, sent, performs, output, result>>

\* lines 56-57: Ok(data.len()) is returned and the guard is dropped
ReleaseWrite(i) ==
    /\ cb_pc[i] = "L56"
    /\ lock' = 0
    /\ cb_pc' = [cb_pc EXCEPT ![i] = "done"]
    /\ UNCHANGED <<search_string, args_headers, ret, pc, easy_url,
                   easy_headers, output_locker, poisoned, wire, sent,
                   performs, output, result, panic>>

NextConc ==
    \E i \in 1..NumCallbacks :
        \/ AcquireWrite(i)
        \/ DecodePush(i)
        \/ ReleaseWrite(i)

SpecConc == InitConc /\ [][NextConc]_vars

----------------------------------------------------------------------------
(* Properties *)

\* "https://www.reddit.com", as the test of lines 131-133 expects it
Origin ==
    <<104, 116, 116, 112, 115, 58, 47, 47, 119, 119, 119, 46,
      114, 101, 100, 100, 105, 116, 46, 99, 111, 109>>

\* C1: gen_request_uri(p) is "https://www.reddit.com" followed by p, byte
\* for byte: the length is the sum of the two lengths, the first bytes are
\* the origin's and the remaining bytes are p's, whatever p holds.
C1_UriIsOriginThenPath ==
    ret # <<>> =>
        LET u == ret[1]
        IN  /\ Len(u) = Len(Origin) + Len(search_string)
            /\ \A i \in 1..Len(Origin) : u[i] = Origin[i]
            /\ \A i \in 1..Len(search_string) :
                   u[Len(Origin) + i] = search_string[i]

\* a path with no leading slash, a space and a pair of braces was built
C1_Witness ==
    /\ pc = "done"
    /\ ret # <<>>
    /\ search_string = <<32, 123, 125>>

CommaAt(h) == {i \in 1..Len(h) : h[i] = Comma}

\* position of the k-th comma of h; 0 for k = 0, Len(h) + 1 past the last
NthComma(h, k) ==
    IF k = 0 THEN 0
    ELSE IF k > Cardinality(CommaAt(h)) THEN Len(h) + 1
    ELSE CHOOSE p \in CommaAt(h) :
             Cardinality({q \in CommaAt(h) : q < p}) = k - 1

\* the k-th substring of h between commas
Entry(h, k) == SubSeq(h, NthComma(h, k - 1) + 1, NthComma(h, k) - 1)

\* n >= 1 non-empty comma-free entries joined by single commas
WellFormed(h) ==
    /\ h # <<>>
    /\ \A k \in 1..(Cardinality(CommaAt(h)) + 1) : Entry(h, k) # <<>>

Reverse(seq) == [i \in 1..Len(seq) |-> seq[Len(seq) + 1 - i]]

C3_EmptyGivesEmptyList ==
    (ret # <<>> /\ args_headers = <<>>) => Len(ret[1]) = 0

RECURSIVE TotalLen(_)
TotalLen(chunks) ==
    IF chunks = <<>> THEN 0 ELSE Len(Head(chunks)) + TotalLen(Tail(chunks))

\* C4: the string get_output_from_transfer returns is the chunks handed to
\* the write callback, each once, in arrival order, with nothing between
\* them: chunk i occupies the bytes after the first i-1 chunks.
C4_OutputIsChunksInOrder ==
    output # <<>> =>
        LET o == output[1]
        IN  /\ Len(o) = TotalLen(sent)
            /\ \A i \in 1..Len(sent) :
                   SubSeq(o, TotalLen(SubSeq(sent, 1, i - 1)) + 1,
                             TotalLen(SubSeq(sent, 1, i))) = sent[i]

\* a transfer of at least two chunks completed and its output was returned
C4_Witness ==
    /\ output # <<>>
    /\ Len(sent) >= 2
    /\ sent[1] # sent[2]

\* C5: when the transfer reports a failure (perform() returns Err, line 59,
\* or the header list cannot be attached, line 88), path_query returns a
\* TransferError value to its caller: the call does not panic.
C5_TransferFailureIsReturned ==
    panic \in {59, 88} =>
        /\ pc = "returned"
        /\ result = <<[t |-> "Err", kind |-> "TransferError"]>>

\* C6: once the transfer has succeeded and path_query has ended, a body that
\* is not JSON has given a ParseError value, and a body that is JSON has
\* given the parsed value of that body.
C6_ParseErrorIsReturned ==
    (output # <<>> /\ pc \in {"returned", "panicked"}) =>
        LET parsed == from_str(output[1])
        IN  IF parsed.ok
            THEN pc = "returned" /\ result = <<parsed.val>>
            ELSE /\ pc = "returned"
                 /\ result = <<[t |-> "Err", kind |-> "ParseError"]>>

\* C7: the accumulator changes only in a step of the write callback while
\* the one perform() of the call is running, and the output is produced from
\* it only after perform() has returned, when every chunk of the response
\* has been accumulated.
C7_AccumulatorDiscipline ==
    [][/\ output_locker' # output_locker =>
              /\ pc = "performing" /\ performs = 1
              /\ Len(output_locker') = Len(output_locker) + 1
       /\ output' # output =>
              /\ pc = "L61"
              /\ wire = <<>>
              /\ Len(output_locker) = Len(sent)
              /\ output' = <<Flatten(sent)>>]_vars

\* the accumulator was written twice and then read
C7_Witness ==
    /\ output # <<>>
    /\ Len(output_locker) >= 2

\* C8: perform() is never invoked twice in a call; it has been invoked
\* exactly once wherever the call is past line 59, in particular when a
\* result is returned and after a failure of the transfer, of the decoding
\* or of the parse; and it runs with the built URL and the formatted header
\* list set on the handle.
C8_ExactlyOnePerform ==
    /\ performs <= 1
    /\ pc \in {"performing", "L61", "L92", "returned"} => performs = 1
    /\ result # <<>> => performs = 1
    /\ panic \in {55, 59, 92} => performs = 1
    /\ performs >= 1 =>
           /\ easy_url = <<Origin \o search_string>>
           /\ easy_headers # <<>>
           /\ Join(easy_headers[1], <<Comma>>) = args_headers

\* perform() failed and the call ended without a second attempt
C8_Witness ==
    /\ pc = "panicked"
    /\ panic = 59
    /\ performs = 1

Terminal(i) == cb_pc[i] \in {"done", "panicked"}

\* the accumulator holds every chunk exactly once, in some order
HoldsEveryChunkOnce ==
    /\ Len(output_locker) = NumCallbacks
    /\ \E f \in [1..NumCallbacks -> 1..NumCallbacks] :
           /\ \A i, j \in 1..NumCallbacks : f[i] = f[j] => i = j
           /\ \A i \in 1..NumCallbacks : output_locker[i] = wire[f[i]]

\* at most one invocation holds the write guard
MutualExclusion ==
    Cardinality({i \in 1..NumCallbacks : cb_pc[i] \in {"L54", "L56"}}) <= 1

\* an invocation that has not ended can always take a step or be waited for
NoDeadlock ==
    (\E i \in 1..NumCallbacks : ~Terminal(i)) => ENABLED NextConc

\* C9: with the callback invoked concurrently, at most one invocation holds
\* write access, no invocation waits for ever, every invocation pushes its
\* chunk and ends, and the accumulator ends up with every chunk exactly once.
C9_ConcurrentAppendsAllKept ==
    /\ MutualExclusion
    /\ NoDeadlock
    /\ \A i \in 1..NumCallbacks : cb_pc[i] # "panicked"
    /\ (\A i \in 1..NumCallbacks : Terminal(i)) => HoldsEveryChunkOnce

\* C10: when the response body is UTF-8 as a whole and the transport does
\* not fail, the transfer succeeds however the body is cut into chunks and
\* returns the whole body.
C10_ChunkingIndependent ==
    (performs = 1 /\ panic # 59 /\ Utf8Valid(Flatten(sent \o wire))) =>
        /\ panic # 55
        /\ output # <<>> => output[1] = Flatten(sent \o wire)

====
